---- MODULE Spec2Model ----
(***************************************************************************)
(* Hdl21: the base Elaborator (hdl21/elab/elaborators/base.py) and the     *)
(* hierarchical ProtoBuf exporter (hdl21/proto/to_proto.py), modelled as   *)
(* explicit-stack state machines over a bounded family of Module           *)
(* hierarchies.  Python's recursion is a stack of frames, one frame per    *)
(* Module whose body is being traversed; an exception unwinds the stack.   *)
(* Elaborator.flatname, the export of one Instance's parameters and        *)
(* connections, and the Asap7Walker (hdl21pdk/asap7/asap7.py) each have a  *)
(* specification of their own over the same variables.                     *)
(***************************************************************************)
EXTENDS Integers, Sequences, FiniteSets, TLC

VARIABLES
    hier,          \* Module objects: id -> [name, pymodule, interfaces, instances, instarrays, bundles]
    emods,         \* ExternalModule objects: id -> [name]
    elaborated,    \* the `_elaborated` flag of every Instance / InstArray / BundleInstance
    flagWrites,    \* history: how many times each node's `_elaborated` was assigned
    top,           \* Elaborator.top
    pass,          \* which Elaborator sub-class runs (decides the elaborate_module hook)
    elab_modules,  \* Elaborator.modules : id(module) -> hook result
    hookCalls,     \* history: how many times elaborate_module ran on each Module
    tops,          \* ProtoExporter.tops
    tidx,          \* position of the `for m in self.tops` loop of ProtoExporter.export
    domain,        \* ProtoExporter.pkg.name
    modules,       \* ProtoExporter.modules : id(module) -> proto Module
    module_names,  \* ProtoExporter.module_names : (domain, name) -> proto Module
    ext_modules,   \* ProtoExporter.ext_modules : id(emod) -> proto ExternalModule
    pkg_modules,   \* ProtoExporter.pkg.modules
    pkg_ext_modules, \* ProtoExporter.pkg.ext_modules
    stack,         \* the call stack: one frame per Module body in progress
    pc,            \* "start", "running", "done" (returned) or "error" (raised)
    err,           \* the exception that ended the run
    ret,           \* the last completed call and its return value
    segments,      \* flatname: the `segments` argument
    avoid,         \* flatname: the keys of the `avoid` argument
    maxlen,        \* flatname: the `maxlen` argument
    name,          \* flatname: the local `name`
    inst,          \* export_instance: the Instance (its target, the target's params, its conns)
    pidx,          \* export_instance: position of the loop over params.items()
    cidx,          \* export_instance: position of the loop over inst.conns.items()
    pinst,         \* export_instance: the proto Instance being filled
    winsts,        \* Asap7Walker: `inst.of` of every Instance, in visiting order
    widx,          \* Asap7Walker: the next Instance to visit
    mos_modcalls,  \* Asap7Walker.mos_modcalls : MosParams value -> ExternalModuleCall
    ncalls         \* history: how many ExternalModuleCall objects the walker created

vars == <<hier, emods, elaborated, flagWrites, top, pass, elab_modules, hookCalls,
          tops, tidx, domain, modules, module_names, ext_modules, pkg_modules,
          pkg_ext_modules, stack, pc, err, ret, segments, avoid, maxlen, name,
          inst, pidx, cidx, pinst, winsts, widx, mos_modcalls, ncalls>>

graphVars == <<hier, emods>>
elabVars == <<top, pass, elab_modules, hookCalls>>
exportVars == <<tops, tidx, domain, modules, module_names, ext_modules, pkg_modules,
                pkg_ext_modules>>
flatVars == <<segments, avoid, maxlen, name>>
instVars == <<inst, pidx, cidx, pinst>>
walkVars == <<winsts, widx, mos_modcalls, ncalls>>
\* The state of flatname, of a single export_instance and of the Asap7Walker.
restVars == <<flatVars, instVars, walkVars>>

----------------------------------------------------------------------------
(* Bounds of the explored family of hierarchies *)

NMod == 3          \* Module objects in a hierarchy
MaxNodes == 3      \* Instances + InstArrays + BundleInstances in a hierarchy
NExt == 2          \* ExternalModule objects
MaxDepth == 4      \* nested calls the interpreter allows (its recursion limit)

Mods == 1..NMod
Exts == 1..NExt

----------------------------------------------------------------------------
(* Graph entities *)

\* The values `inst._resolved` / `array._resolved` can hold.
ModuleT(k) == [kind |-> "Module", id |-> k]
PrimitiveCall == [kind |-> "PrimitiveCall", id |-> 0]
ExternalModuleCall(e) == [kind |-> "ExternalModuleCall", id |-> e]
GeneratorCall == [kind |-> "GeneratorCall", id |-> 0]
None == [kind |-> "None", id |-> 0]

isinstance(of, kind) == of.kind = kind

SeqsUpTo(S, n) == UNION {[1..k -> S] : k \in 0..n}

\* The three ordered child mappings of one Module, with at most b nodes in
\* all: Instances with targets in TI, InstArrays with targets in TA, and at
\* most nb BundleInstances.
Min(a, b) == IF a < b THEN a ELSE b

Bodies(TI, TA, nb, b) ==
    UNION {UNION {{[instances |-> i, instarrays |-> a, bundles |-> bn] :
                      bn \in SeqsUpTo({"BundleInstance"}, Min(nb, b - Len(i) - Len(a)))} :
                   a \in SeqsUpTo(TA, b - Len(i))} :
           i \in SeqsUpTo(TI, b)}

NKids(m) == Len(m.instances) + Len(m.instarrays) + Len(m.bundles)

\* The targets open to Module n in an acyclic hierarchy: the leaves L and the
\* Modules of a smaller id.
TargetsOf(n, L) == L \cup {ModuleT(k) : k \in 1..(n - 1)}

\* Bodies, tabulated by owner and by node budget.
BodyTable(L, arrays, nb, maxb) ==
    [n \in Mods |-> [b \in 0..maxb |->
        Bodies(TargetsOf(n, L), IF arrays THEN TargetsOf(n, L) ELSE {}, nb, b)]]

ModTargets(m) ==
    {m.instances[i].id : i \in {j \in DOMAIN m.instances : m.instances[j].kind = "Module"}}
    \cup {m.instarrays[i].id : i \in {j \in DOMAIN m.instarrays : m.instarrays[j].kind = "Module"}}

\* Modules reachable from the set R through Instance and InstArray targets.
RECURSIVE Reach(_, _, _)
Reach(h, R, n) ==
    IF n = 0 THEN R
    ELSE Reach(h, IF n \in R THEN R \cup ModTargets(h[n]) ELSE R, n - 1)

Reachable(h, R) == Reach(h, R, NMod)

\* Every Instance, InstArray and BundleInstance, named by its owner and its
\* position in the owner's traversal order (instances, instarrays, bundles).
Nodes(h) == UNION {{<<m, p>> : p \in 1..NKids(h[m])} : m \in DOMAIN h}

Module(body, nm, pymodule, interfaces) ==
    [name |-> nm, pymodule |-> pymodule, interfaces |-> interfaces,
     instances |-> body.instances, instarrays |-> body.instarrays, bundles |-> body.bundles]

\* A Module no top reaches: it takes no part in the run.
Unused == Module([instances |-> <<>>, instarrays |-> <<>>, bundles |-> <<>>], "a", "p", <<>>)

\* The acyclic hierarchies (Module n instantiates only Modules of a smaller
\* id) reachable from the Modules R, with at most b nodes: Modules are given
\* a body, a name and interfaces (one of names[n]) from the highest id down, and only
\* when something above reaches them.  h holds the Modules above n.
RECURSIVE BuildHier(_, _, _, _, _, _)
BuildHier(n, h, R, b, tab, names) ==
    IF n = 0 THEN hier = h
    ELSE IF n \notin R THEN BuildHier(n - 1, (n :> Unused) @@ h, R, b, tab, names)
    ELSE \E body \in tab[n][b], nm \in names[n] :
            BuildHier(n - 1, (n :> Module(body, nm.name, nm.pymodule, nm.interfaces)) @@ h,
                      R \cup ModTargets(body), b - NKids(body), tab, names)

NoErr == [type |-> "none", by |-> "none", of |-> None]
NoRet == [call |-> "none", arg |-> None, value |-> None]

TopFrame == stack[Len(stack)]
Pop(stk) == SubSeq(stk, 1, Len(stk) - 1)
\* The caller's loop moves on to its next entry once the call in progress returns.
Advance(stk) == [stk EXCEPT ![Len(stk)].pos = @ + 1]

\* An exception: it propagates through every frame, nothing catches it.
Raise(type, by, of) ==
    /\ pc' = "error"
    /\ err' = [type |-> type, by |-> by, of |-> of]
    /\ stack' = <<>>
    /\ UNCHANGED ret

\* A call returns `value` to the frame below; with no frame left the run is over.
Return(call, arg, value, stk) ==
    /\ ret' = [call |-> call, arg |-> arg, value |-> value]
    /\ stack' = stk
    /\ pc' = IF stk = <<>> THEN "done" ELSE "running"
    /\ UNCHANGED err

----------------------------------------------------------------------------
(* Elaborator (hdl21/elab/elaborators/base.py) *)

\* The passes: the base class, whose hook is the identity, and a sub-class
\* whose hook returns a new Module object (ids above NMod are such objects).
Passes == {"Elaborator", "CopyingPass"}

\* A hook that returns a new Module object in every pass.
elaborate_module_copying(p, m) == ModuleT(m + NMod)

\* The per-pass hook.
elaborate_module(p, m) ==
    IF p = "Elaborator" THEN ModuleT(m) ELSE ModuleT(m + NMod)

\* Lines 55-59: what the base class does with a GeneratorCall.
elaborate_generator_call(call, stk) ==
    Raise("RuntimeError", "elaborate_generator_call", call)

\* elaborate_module_base without the cache check of lines 76-77.
elaborate_module_base_nocache(m, stk) ==
    IF hier[m].name = ""
    THEN Raise("RuntimeError", "elaborate_module_base", ModuleT(m))
    ELSE /\ stack' = Append(stk, [module |-> m, pos |-> 1])
         /\ pc' = "running"
         /\ UNCHANGED <<err, ret>>

\* elaborate_module_base running the hook before the loops of lines 84-89.
elaborate_module_base_hookfirst(m, stk) ==
    IF m \in DOMAIN elab_modules
    THEN Return("elaborate_module_base", ModuleT(m), ModuleT(m), stk)
    ELSE IF hier[m].name = ""
    THEN Raise("RuntimeError", "elaborate_module_base", ModuleT(m))
    ELSE /\ stack' = Append(stk, [module |-> m, pos |-> NKids(hier[m]) + 1])
         /\ pc' = "running"
         /\ UNCHANGED <<err, ret>>

\* elaborate_module_base without the name check of lines 79-81.
elaborate_module_base_noname(m, stk) ==
    IF m \in DOMAIN elab_modules
    THEN Return("elaborate_module_base", ModuleT(m), ModuleT(m), stk)
    ELSE /\ stack' = Append(stk, [module |-> m, pos |-> 1])
         /\ pc' = "running"
         /\ UNCHANGED <<err, ret>>

\* Lines 76-89 of elaborate_module_base: cache check, name check, and entry
\* into the traversal of the Module's instances, arrays and bundles.
elaborate_module_base(m, stk) ==
    IF Len(stk) >= MaxDepth
    THEN Raise("RecursionError", "elaborate_module_base", ModuleT(m))
    ELSE IF m \in DOMAIN elab_modules
    THEN Return("elaborate_module_base", ModuleT(m), ModuleT(m), stk)
    ELSE IF hier[m].name = ""
    THEN Raise("RuntimeError", "elaborate_module_base", ModuleT(m))
    ELSE /\ stack' = Append(stk, [module |-> m, pos |-> 1])
         /\ pc' = "running"
         /\ UNCHANGED <<err, ret>>

elaborate_instantiable(of, stk) ==
    IF of = None
    THEN Raise("RuntimeError", "elaborate_instantiable", of)
    ELSE IF isinstance(of, "Module")
    THEN elaborate_module_base(of.id, stk)
    ELSE IF isinstance(of, "PrimitiveCall")
    THEN Return("elaborate_primitive_call", of, of, stk)
    ELSE IF isinstance(of, "ExternalModuleCall")
    THEN Return("elaborate_external_module", of, of, stk)
    ELSE Raise("TypeError", "elaborate_instantiable", of)

SetElaborated(node) ==
    /\ elaborated' = [elaborated EXCEPT ![node] = TRUE]
    /\ flagWrites' = [flagWrites EXCEPT ![node] = @ + 1]

\* elaborate_top handing any top to the Instantiable dispatch, without the
\* type check of lines 51-52.
elaborate_top_nocheck ==
    /\ pc = "start"
    /\ elaborate_instantiable(top, <<>>)
    /\ UNCHANGED <<graphVars, restVars, elaborated, flagWrites, elabVars, exportVars>>

elaborate_top ==
    /\ pc = "start"
    /\ IF ~isinstance(top, "Module")
       THEN Raise("TypeError", "elaborate_top", top)
       ELSE elaborate_module_base(top.id, <<>>)
    /\ UNCHANGED <<graphVars, restVars, elaborated, flagWrites, elabVars, exportVars>>

elaborate_instance ==
    /\ pc = "running"
    /\ LET f == TopFrame
           m == hier[f.module]
       IN /\ f.pos <= Len(m.instances)
          /\ SetElaborated(<<f.module, f.pos>>)
          /\ elaborate_instantiable(m.instances[f.pos], Advance(stack))
    /\ UNCHANGED <<graphVars, restVars, elabVars, exportVars>>

elaborate_instance_array ==
    /\ pc = "running"
    /\ LET f == TopFrame
           m == hier[f.module]
           i == f.pos - Len(m.instances)
       IN /\ i >= 1
          /\ i <= Len(m.instarrays)
          /\ SetElaborated(<<f.module, f.pos>>)
          /\ elaborate_instantiable(m.instarrays[i], Advance(stack))
    /\ UNCHANGED <<graphVars, restVars, elabVars, exportVars>>

elaborate_bundle_instance ==
    /\ pc = "running"
    /\ LET f == TopFrame
           m == hier[f.module]
       IN /\ f.pos > Len(m.instances) + Len(m.instarrays)
          /\ f.pos <= NKids(m)
          /\ SetElaborated(<<f.module, f.pos>>)
          /\ Return("elaborate_bundle_instance", None, None, Advance(stack))
    /\ UNCHANGED <<graphVars, restVars, elabVars, exportVars>>

\* Lines 91-96 of elaborate_module_base: run the hook, cache its result
\* under the original Module's identity, return it.
elaborate_module_base_return ==
    /\ pc = "running"
    /\ LET f == TopFrame
           result == elaborate_module(pass, f.module)
       IN /\ f.pos = NKids(hier[f.module]) + 1
          /\ hookCalls' = [hookCalls EXCEPT ![f.module] = @ + 1]
          /\ elab_modules' = (f.module :> result) @@ elab_modules
          /\ Return("elaborate_module_base", ModuleT(f.module), result, Pop(stack))
    /\ UNCHANGED <<graphVars, restVars, elaborated, flagWrites, top, pass, exportVars>>

ElabLeaves == {PrimitiveCall, ExternalModuleCall(1), GeneratorCall, None}
ElabNames ==
    [n \in Mods |-> {[pymodule |-> "p", name |-> "", interfaces |-> <<>>],
                     [pymodule |-> "p", name |-> "a", interfaces |-> <<>>]}]
NonModuleTops == {PrimitiveCall, GeneratorCall}

\* flatname, export_instance and the Asap7Walker take no part in a run of
\* the Elaborator or of ProtoExporter.export.
NoPinst == [module |-> [domain |-> "", name |-> ""], parameters |-> <<>>, connections |-> <<>>]

FlatIdle ==
    /\ segments = <<>>
    /\ avoid = None
    /\ maxlen = 0
    /\ name = ""

InstIdle ==
    /\ inst = [of |-> None, params |-> <<>>, conns |-> <<>>]
    /\ pidx = 0
    /\ cidx = 0
    /\ pinst = NoPinst

WalkIdle ==
    /\ winsts = <<>>
    /\ widx = 0
    /\ mos_modcalls = <<>>
    /\ ncalls = 0

ExportIdle ==
    /\ tops = <<>>
    /\ tidx = 0
    /\ domain = ""
    /\ modules = <<>>
    /\ module_names = <<>>
    /\ ext_modules = <<>>
    /\ pkg_modules = <<>>
    /\ pkg_ext_modules = <<>>

RunInit ==
    /\ elaborated = [n \in Nodes(hier) |-> FALSE]
    /\ flagWrites = [n \in Nodes(hier) |-> 0]
    /\ elab_modules = <<>>
    /\ hookCalls = [m \in Mods |-> 0]
    /\ stack = <<>>
    /\ pc = "start"
    /\ err = NoErr
    /\ ret = NoRet

ElabBodies == BodyTable(ElabLeaves, TRUE, MaxNodes, MaxNodes)

\* Elaborator(top, ctx): a hierarchy built by the authoring API, nothing visited.
InitElab ==
    /\ BuildHier(NMod, <<>>, {NMod}, MaxNodes, ElabBodies, ElabNames)
    /\ emods = [e \in Exts |-> [name |-> "x"]]
    /\ top \in {ModuleT(NMod)} \cup NonModuleTops
    /\ pass \in Passes
    /\ ExportIdle
    /\ FlatIdle
    /\ InstIdle
    /\ WalkIdle
    /\ RunInit

NextElab ==
    \/ elaborate_top
    \/ elaborate_instance
    \/ elaborate_instance_array
    \/ elaborate_bundle_instance
    \/ elaborate_module_base_return

SpecElab == InitElab /\ [][NextElab]_vars

\* The authoring API does not keep a Module from instantiating itself or a
\* Module that instantiates it: the targets open to any Module are the
\* leaves L and every Module.
CyclicBodyTable(L, nb, maxb) ==
    [n \in Mods |-> [b \in 0..maxb |->
        Bodies(L \cup {ModuleT(k) : k \in Mods}, L \cup {ModuleT(k) : k \in Mods}, nb, b)]]

CyclicNames == [n \in Mods |-> {[pymodule |-> "p", name |-> "a", interfaces |-> <<>>]}]

\* Elaborator(top, ctx) on a hierarchy of named Modules that may hold cycles.
InitElabCyclic ==
    /\ BuildHier(NMod, <<>>, {NMod}, MaxNodes,
                 CyclicBodyTable({PrimitiveCall}, MaxNodes, MaxNodes), CyclicNames)
    /\ emods = [e \in Exts |-> [name |-> "x"]]
    /\ top = ModuleT(NMod)
    /\ pass \in Passes
    /\ ExportIdle
    /\ FlatIdle
    /\ InstIdle
    /\ WalkIdle
    /\ RunInit

SpecElabCyclic == InitElabCyclic /\ [][NextElab]_vars

----------------------------------------------------------------------------
(* Properties of the Elaborator *)

\* The target of the Instance or InstArray at position p of Module m
\* (None for a BundleInstance).
TargetOf(m, p) ==
    IF p <= Len(hier[m].instances) THEN hier[m].instances[p]
    ELSE IF p <= Len(hier[m].instances) + Len(hier[m].instarrays)
    THEN hier[m].instarrays[p - Len(hier[m].instances)]
    ELSE None

\* The Instances and InstArrays, in any parent, whose target is Module m.
Instantiators(m) == {n \in Nodes(hier) : TargetOf(n[1], n[2]) = ModuleT(m)}

Terminated == pc \in {"done", "error"}

NamingError(e) == e.type = "RuntimeError" /\ e.by = "elaborate_module_base"

\* C4: within one run the elaborate_module hook runs at most once on each
\* Module identity, and a run that returns has run it exactly once on each
\* Module reachable from the top and on no other.
C4_HookOncePerModule ==
    /\ \A m \in Mods : hookCalls[m] <= 1
    /\ pc = "done" =>
          \A m \in Mods :
              hookCalls[m] = IF m \in Reachable(hier, {top.id}) THEN 1 ELSE 0

\* A run has returned and some Module with at least two instantiators, an
\* InstArray among them, had its hook run once.
C4_Witness ==
    /\ pc = "done"
    /\ \E m \in Mods :
          /\ Cardinality(Instantiators(m)) >= 2
          /\ \E n \in Instantiators(m) : n[2] > Len(hier[n[1]].instances)
          /\ hookCalls[m] = 1

\* C5: a call of elaborate_module_base on a Module that is in the cache
\* returns the object the cache holds for it.
C5_ReturnsCachedObject ==
    (ret.call = "elaborate_module_base" /\ ret.arg.id \in DOMAIN elab_modules)
        => ret.value = elab_modules[ret.arg.id]

\* C6: when the hook is about to run on Module M, every Instance, InstArray
\* and BundleInstance of M has its flag set, and every Module targeted by M's
\* Instances and InstArrays has had its hook run and is in the cache.
HookDue == /\ pc = "running"
           /\ TopFrame.pos = NKids(hier[TopFrame.module]) + 1

C6_ChildrenBeforeHook ==
    HookDue =>
        LET m == TopFrame.module IN
        /\ \A p \in 1..NKids(hier[m]) : elaborated[<<m, p>>]
        /\ \A k \in ModTargets(hier[m]) : k \in DOMAIN elab_modules /\ hookCalls[k] = 1

\* The hook is due on a Module that has a Module child and a further node.
C6_Witness ==
    /\ HookDue
    /\ ModTargets(hier[TopFrame.module]) # {}
    /\ NKids(hier[TopFrame.module]) >= 2

\* The Modules from which an anonymous Module is reachable (itself included).
AboveAnonymous ==
    {m \in Mods : \E a \in Reachable(hier, {m}) : hier[a].name = ""}

AnonymousReachable ==
    /\ isinstance(top, "Module")
    /\ \E a \in Reachable(hier, {top.id}) : hier[a].name = ""

\* A reachable Instance or InstArray whose target is undefined or is not an
\* Instantiable.
BadTargetReachable ==
    \E n \in Nodes(hier) :
        /\ n[1] \in Reachable(hier, {top.id})
        /\ n[2] <= Len(hier[n[1]].instances) + Len(hier[n[1]].instarrays)
        /\ TargetOf(n[1], n[2]).kind \in {"None", "GeneratorCall"}

NeverHooked(S) == \A m \in S : hookCalls[m] = 0 /\ m \notin DOMAIN elab_modules

C9_InvalidTop ==
    (~isinstance(top, "Module") /\ pc # "start") =>
        /\ pc = "error"
        /\ err = [type |-> "TypeError", by |-> "elaborate_top", of |-> top]
        /\ \A m \in Mods : hookCalls[m] = 0
        /\ \A n \in Nodes(hier) : ~elaborated[n] /\ flagWrites[n] = 0
        /\ elab_modules = <<>>

\* The invalid-top error was raised with a non-empty hierarchy at hand.
C9_Witness ==
    /\ pc = "error"
    /\ err.by = "elaborate_top"
    /\ top = GeneratorCall
    /\ Nodes(hier) # {}

\* C10: a GeneratorCall reached as a target ends the run with the error of
\* elaborate_generator_call.
C10_GeneratorCallError ==
    (pc = "error" /\ isinstance(top, "Module") /\ err.of = GeneratorCall) =>
        (err.type = "RuntimeError" /\ err.by = "elaborate_generator_call")

\* C17: a run that has failed has unwound every call, has returned nothing
\* for the top, and has left the graph as it found it: every Instance,
\* InstArray and BundleInstance flag has the value it had before the call.
C17_NoPartialState ==
    pc = "error" =>
        /\ stack = <<>>
        /\ top.id \notin DOMAIN elab_modules
        /\ \A n \in Nodes(hier) : ~elaborated[n]

\* C18: no flag is written twice; when a run has returned, the flag of every
\* Instance, InstArray and BundleInstance of every Module reachable from the
\* top has been written exactly once and that of no other node; a flag is
\* set exactly when it has been written, and once set it stays set.
C18_FlagWrittenOnce ==
    /\ [](\A n \in Nodes(hier) :
              /\ flagWrites[n] <= 1
              /\ elaborated[n] <=> flagWrites[n] = 1
              /\ pc = "done" =>
                    flagWrites[n] = IF n[1] \in Reachable(hier, {top.id}) THEN 1 ELSE 0)
    /\ [][\A n \in Nodes(hier) : elaborated[n] => elaborated'[n]]_vars

\* A run has returned in which a Module that holds nodes is the target of
\* two Instances or InstArrays.
C18_Witness ==
    /\ pc = "done"
    /\ \E m \in Mods :
          /\ Cardinality(Instantiators(m)) >= 2
          /\ NKids(hier[m]) >= 1
          /\ \A p \in 1..NKids(hier[m]) : flagWrites[<<m, p>>] = 1

\* A hierarchy the Elaborator accepts: the top is a Module, every Module
\* reachable from it is named, every reachable target is an Instantiable
\* the base pass handles.
WellFormed ==
    /\ isinstance(top, "Module")
    /\ ~AnonymousReachable
    /\ ~BadTargetReachable

\* C23: a run of the base pass on a well-formed hierarchy does not fail and
\* returns the top Module object itself, having cached every Module as
\* itself; no step of any run changes a Module's name, instances, arrays,
\* bundles or an Instance's target: only the _elaborated flags change.
C23_IdentityPass ==
    /\ [](pass = "Elaborator" =>
            /\ pc = "done" =>
                  /\ ret = [call |-> "elaborate_module_base", arg |-> top, value |-> top]
                  /\ \A m \in DOMAIN elab_modules : elab_modules[m] = ModuleT(m)
            /\ pc = "error" => ~WellFormed)
    /\ [][hier' = hier /\ emods' = emods]_vars

\* The base pass returned from a top with at least two Instances or
\* InstArrays, one of them of a Module, all flags of the top set.
C23_Witness ==
    /\ pass = "Elaborator"
    /\ pc = "done"
    /\ NKids(hier[top.id]) >= 2
    /\ \E n \in Nodes(hier) :
          /\ n[1] = top.id
          /\ isinstance(TargetOf(n[1], n[2]), "Module")
    /\ \A n \in Nodes(hier) :
          (n[1] = top.id /\ TargetOf(n[1], n[2]) # None) => elaborated[n]

\* The Modules whose traversal (lines 84-89) is in progress, outermost first.
InProgress == [i \in DOMAIN stack |-> stack[i].module]

\* C24: no Module's body is entered while an earlier traversal of the same
\* Module is still in progress, on any hierarchy, cyclic ones included, so
\* no run ends by exhausting the interpreter's recursion limit.
C24_NoReentry ==
    /\ \A i, j \in DOMAIN InProgress : i # j => InProgress[i] # InProgress[j]
    /\ pc = "error" => err.type # "RecursionError"

----------------------------------------------------------------------------
(* ProtoExporter (hdl21/proto/to_proto.py) *)
(* A proto Module is its qualified name and the module references of its   *)
(* Instances; ports, signals, parameters and connections play no part in   *)
(* naming, ordering or memoization and are left out.  `tops` is always a   *)
(* list, as to_proto (lines 24-27) makes it.                               *)

\* The name of the one Primitive of the modelled hierarchies.
PrimName == "Mos"

\* Lines 64-65 of export_module_name: the serialized name of Module m.
QualifiedName(m) ==
    [domain |-> domain, name |-> hier[m].pymodule \o "." \o hier[m].name]

\* A call of export_module returns pmod.  The caller is either the loop of
\* `export` (no frame left) or export_instance, which then points the
\* Instance at pmod's name and appends it to its Module (lines 166, 109).
ExportReturn(m, pmod, stk) ==
    /\ ret' = [call |-> "export_module", arg |-> ModuleT(m), value |-> pmod]
    /\ stack' = IF stk = <<>> THEN stk
                ELSE [stk EXCEPT ![Len(stk)].pmod.instances = Append(@, [module |-> pmod.name])]
    /\ pc' = IF stk = <<>> /\ tidx' > Len(tops) THEN "done" ELSE "running"
    /\ UNCHANGED err

\* export_module without the cache check of lines 78-79.
export_module_nocache(m, stk) ==
    IF hier[m].interfaces # <<>>
    THEN Raise("RuntimeError", "export_module", ModuleT(m))
    ELSE IF <<QualifiedName(m).domain, QualifiedName(m).name>> \in DOMAIN module_names
    THEN Raise("RuntimeError", "export_module_name", ModuleT(m))
    ELSE /\ stack' = Append(stk, [module |-> m, pos |-> 1,
                                  pmod |-> [src |-> m, name |-> QualifiedName(m),
                                            instances |-> <<>>]])
         /\ pc' = "running"
         /\ UNCHANGED <<err, ret>>

\* Lines 77-100 of export_module, with export_module_name (lines 60-75):
\* cache check, interfaces check, name and collision check, entry into the
\* loop over the Module's instances.  `src` records which Module a proto
\* Module was made from.
export_module(m, stk) ==
    IF m \in DOMAIN modules
    THEN ExportReturn(m, modules[m], stk)
    ELSE IF hier[m].interfaces # <<>>
    THEN Raise("RuntimeError", "export_module", ModuleT(m))
    ELSE IF <<QualifiedName(m).domain, QualifiedName(m).name>> \in DOMAIN module_names
    THEN Raise("RuntimeError", "export_module_name", ModuleT(m))
    ELSE /\ stack' = Append(stk, [module |-> m, pos |-> 1,
                                  pmod |-> [src |-> m, name |-> QualifiedName(m),
                                            instances |-> <<>>]])
         /\ pc' = "running"
         /\ UNCHANGED <<err, ret>>

\* Lines 54-58 of export: one iteration of the loop over the tops; the
\* Package is returned when the last top's export returns.
export ==
    /\ pc \in {"start", "running"}
    /\ stack = <<>>
    /\ tidx <= Len(tops)
    /\ tidx' = tidx + 1
    /\ IF ~isinstance(tops[tidx], "Module")
       THEN Raise("TypeError", "export", tops[tidx])
       ELSE export_module(tops[tidx].id, <<>>)
    /\ UNCHANGED <<graphVars, restVars, elaborated, flagWrites, elabVars, tops, domain, modules,
                   module_names, ext_modules, pkg_modules, pkg_ext_modules>>

\* export_external_module keeping its result out of the Package.
export_external_module_unlisted(e) ==
    IF e \in DOMAIN ext_modules
    THEN UNCHANGED <<ext_modules, pkg_ext_modules>>
    ELSE /\ ext_modules' = (e :> [src |-> e, name |-> emods[e].name]) @@ ext_modules
         /\ UNCHANGED pkg_ext_modules

\* export_external_module without the cache check of lines 119-120.
export_external_module_nocache(e) ==
    /\ ext_modules' = (e :> [src |-> e, name |-> emods[e].name]) @@ ext_modules
    /\ pkg_ext_modules' = Append(pkg_ext_modules, [src |-> e, name |-> emods[e].name])

\* Lines 117-132, export_external_module: memoized by ExternalModule identity.
export_external_module(e) ==
    IF e \in DOMAIN ext_modules
    THEN UNCHANGED <<ext_modules, pkg_ext_modules>>
    ELSE /\ ext_modules' = (e :> [src |-> e, name |-> emods[e].name]) @@ ext_modules
         /\ pkg_ext_modules' = Append(pkg_ext_modules, [src |-> e, name |-> emods[e].name])

\* The Instance is complete: it is appended to its Module (line 109) and the
\* loop of export_module moves on.
AppendInstance(qn) ==
    /\ stack' = [stack EXCEPT ![Len(stack)].pos = @ + 1,
                              ![Len(stack)].pmod.instances = Append(@, [module |-> qn])]
    /\ pc' = "running"
    /\ UNCHANGED <<err, ret>>

\* Lines 103-109 of export_module and export_instance (lines 153-194).
export_instance ==
    /\ pc = "running"
    /\ stack # <<>>
    /\ UNCHANGED tidx
    /\ LET f == TopFrame
           m == hier[f.module]
       IN /\ f.pos <= Len(m.instances)
          /\ LET of == m.instances[f.pos] IN
             IF of = None
             THEN /\ Raise("RuntimeError", "export_module", of)
                  /\ UNCHANGED <<ext_modules, pkg_ext_modules>>
             ELSE IF isinstance(of, "Module")
             THEN /\ export_module(of.id, Advance(stack))
                  /\ UNCHANGED <<ext_modules, pkg_ext_modules>>
             ELSE IF isinstance(of, "PrimitiveCall")
             THEN /\ AppendInstance([domain |-> "hdl21.primitives", name |-> PrimName])
                  /\ UNCHANGED <<ext_modules, pkg_ext_modules>>
             ELSE IF isinstance(of, "ExternalModuleCall")
             THEN /\ export_external_module(of.id)
                  /\ AppendInstance([domain |-> "", name |-> emods[of.id].name])
             ELSE /\ Raise("TypeError", "export_instance", of)
                  /\ UNCHANGED <<ext_modules, pkg_ext_modules>>
    /\ UNCHANGED <<graphVars, restVars, elaborated, flagWrites, elabVars, tops, domain, modules,
                   module_names, pkg_modules>>

\* export_module appending the finished Module at the front of the Package.
export_module_return_prepend ==
    /\ pc = "running"
    /\ stack # <<>>
    /\ UNCHANGED tidx
    /\ LET f == TopFrame
           qname == f.pmod.name
       IN /\ f.pos = Len(hier[f.module].instances) + 1
          /\ modules' = (f.module :> f.pmod) @@ modules
          /\ module_names' = (<<qname.domain, qname.name>> :> f.pmod) @@ module_names
          /\ pkg_modules' = <<f.pmod>> \o pkg_modules
          /\ ExportReturn(f.module, f.pmod, Pop(stack))
    /\ UNCHANGED <<graphVars, restVars, elaborated, flagWrites, elabVars, tops, domain, ext_modules,
                   pkg_ext_modules>>

\* Lines 111-115 of export_module: store the result in both dicts, append it
\* to the Package, return it.
export_module_return ==
    /\ pc = "running"
    /\ stack # <<>>
    /\ UNCHANGED tidx
    /\ LET f == TopFrame
           qname == f.pmod.name
       IN /\ f.pos = Len(hier[f.module].instances) + 1
          /\ modules' = (f.module :> f.pmod) @@ modules
          /\ module_names' = (<<qname.domain, qname.name>> :> f.pmod) @@ module_names
          /\ pkg_modules' = Append(pkg_modules, f.pmod)
          /\ ExportReturn(f.module, f.pmod, Pop(stack))
    /\ UNCHANGED <<graphVars, restVars, elaborated, flagWrites, elabVars, tops, domain, ext_modules,
                   pkg_ext_modules>>

MaxTops == 2
MaxInsts == 3

ExportLeaves == {PrimitiveCall, None, GeneratorCall} \cup {ExternalModuleCall(e) : e \in Exts}

\* Names matter only through equality: the highest Module takes the first.
ExportNames ==
    [n \in Mods |->
        IF n = NMod THEN {[pymodule |-> "p", name |-> "a", interfaces |-> <<>>]}
        ELSE {[pymodule |-> "p", name |-> "a", interfaces |-> <<>>],
              [pymodule |-> "p", name |-> "b", interfaces |-> <<>>],
              [pymodule |-> "q", name |-> "a", interfaces |-> <<>>]}]
ExtNames == {"x", "y"}
Domains == {"", "d"}

\* The lists of tops: Modules, the highest one among them, or a list that
\* ends in an object that is not a Module.
TopLists ==
    {tp \in SeqsUpTo({ModuleT(m) : m \in Mods} \cup {PrimitiveCall}, MaxTops) :
        /\ Len(tp) >= 1
        /\ \A i \in 1..(Len(tp) - 1) : isinstance(tp[i], "Module")
        /\ (\E i \in DOMAIN tp : isinstance(tp[i], "Module")) =>
              (\E i \in DOMAIN tp : tp[i] = ModuleT(NMod))}

TopModules(tp) == {tp[i].id : i \in {j \in DOMAIN tp : isinstance(tp[j], "Module")}}

ElabIdle ==
    /\ top = None
    /\ pass = "Elaborator"

ExportBodies == BodyTable(ExportLeaves, FALSE, 0, MaxInsts)

\* The ExternalModules some Instance refers to.
UsedExts ==
    {e \in Exts : \E m \in Mods : \E i \in DOMAIN hier[m].instances :
                      hier[m].instances[i] = ExternalModuleCall(e)}

\* ProtoExporter(tops, domain): nothing exported yet.  A hierarchy has at
\* most MaxInsts Instances and tops beyond the first; the ExternalModules in
\* use are the first ones, and the first of them takes the first name.
InitExport ==
    /\ tops \in TopLists
    /\ Len(tops) - 1 <= MaxInsts
    /\ BuildHier(NMod, <<>>, TopModules(tops), MaxInsts - (Len(tops) - 1), ExportBodies,
                 ExportNames)
    /\ \A e \in UsedExts : \A d \in 1..e : d \in UsedExts
    /\ \E en \in [UsedExts -> ExtNames] :
          /\ 1 \in UsedExts => en[1] = "x"
          /\ emods = [e \in Exts |-> [name |-> IF e \in UsedExts THEN en[e] ELSE "x"]]
    /\ domain \in Domains
    /\ tidx = 1
    /\ modules = <<>>
    /\ module_names = <<>>
    /\ ext_modules = <<>>
    /\ pkg_modules = <<>>
    /\ pkg_ext_modules = <<>>
    /\ ElabIdle
    /\ FlatIdle
    /\ InstIdle
    /\ WalkIdle
    /\ RunInit

NextExport ==
    \/ export
    \/ export_instance
    \/ export_module_return

SpecExport == InitExport /\ [][NextExport]_vars

\* Hierarchies whose Modules also hold InstArrays, BundleInstances and
\* interfaces: every Module has a name of its own.
ModNames == <<"a", "b", "c", "d", "e", "f">>
AttachNames ==
    [n \in Mods |-> {[pymodule |-> "p", name |-> ModNames[n], interfaces |-> i] :
                        i \in {<<>>, <<"Interface">>}}]
AttachBodies ==
    BodyTable({PrimitiveCall, ExternalModuleCall(1)}, TRUE, MaxNodes, MaxNodes)

\* ProtoExporter([top], domain=None) on such a hierarchy.
InitExportAttach ==
    /\ tops = <<ModuleT(NMod)>>
    /\ BuildHier(NMod, <<>>, {NMod}, MaxNodes, AttachBodies, AttachNames)
    /\ emods = [e \in Exts |-> [name |-> "x"]]
    /\ domain = ""
    /\ tidx = 1
    /\ modules = <<>>
    /\ module_names = <<>>
    /\ ext_modules = <<>>
    /\ pkg_modules = <<>>
    /\ pkg_ext_modules = <<>>
    /\ ElabIdle
    /\ FlatIdle
    /\ InstIdle
    /\ WalkIdle
    /\ RunInit

SpecExportAttach == InitExportAttach /\ [][NextExport]_vars

TypeOK ==
    /\ pc \in {"start", "running", "done", "error"}
    /\ DOMAIN elab_modules \subseteq Mods
    /\ DOMAIN modules \subseteq Mods
    /\ DOMAIN ext_modules \subseteq Exts

----------------------------------------------------------------------------
(* Properties of the ProtoExporter *)

InstanceTargets(m) ==
    {m.instances[i].id : i \in {j \in DOMAIN m.instances : m.instances[j].kind = "Module"}}

\* Modules reachable from the set R through Instance targets alone.
RECURSIVE ReachByInstances(_, _)
ReachByInstances(R, n) ==
    IF n = 0 THEN R
    ELSE ReachByInstances(IF n \in R THEN R \cup InstanceTargets(hier[n]) ELSE R, n - 1)

\* The Modules that Module m instantiates, directly or transitively.
ChildrenOf(m) == ReachByInstances({m}, NMod) \ {m}

\* The positions of Module m in the Package's modules list.
IndexOf(m) == {i \in DOMAIN pkg_modules : pkg_modules[i].src = m}

\* C1: in the Package a successful export returns, every Module that an
\* exported Module instantiates, directly or transitively, is present, and
\* every position it has is strictly before every position of that Module.
C1_ChildrenFirst ==
    pc = "done" =>
        \A j \in DOMAIN pkg_modules :
            \A c \in ChildrenOf(pkg_modules[j].src) :
                /\ IndexOf(c) # {}
                /\ \A i \in IndexOf(c) : i < j

\* An export of two distinct tops that share a sub-module has returned a
\* Package of three Modules.
C1_Witness ==
    /\ pc = "done"
    /\ Len(tops) = 2
    /\ tops[1] # tops[2]
    /\ Len(pkg_modules) = 3
    /\ \E m \in Mods : Cardinality(Instantiators(m)) = 2

\* The Modules the exporter has reached: exported, or being exported.
Reached == DOMAIN modules \cup {stack[i].module : i \in DOMAIN stack}

\* C2: the export does not go on once it has reached two distinct Modules
\* with the same qualified name; it has failed with the collision error.
C2_CollisionRaises ==
    (\E a, b \in Reached : a # b /\ QualifiedName(a) = QualifiedName(b)) =>
        (pc = "error" /\ err.type = "RuntimeError" /\ err.by = "export_module_name")

NoDuplicates(sq) == \A i, j \in DOMAIN sq : i # j => sq[i].name # sq[j].name

\* C3: in a returned Package no two Modules share a (domain, name), no two
\* ExternalModules share a name, and no Module has the (domain, name) of an
\* ExternalModule, whose domain is blank.
C3_UniqueNames ==
    pc = "done" =>
        /\ NoDuplicates(pkg_modules)
        /\ NoDuplicates(pkg_ext_modules)
        /\ \A i \in DOMAIN pkg_modules, j \in DOMAIN pkg_ext_modules :
              pkg_modules[i].name # [domain |-> "", name |-> pkg_ext_modules[j].name]

\* The Modules the tops depend on: the tops, and every target of an Instance
\* or of an InstanceArray of a Module the tops depend on.
Dependencies == Reachable(hier, TopModules(tops))

\* C25: the modules list of a returned Package holds every Module the tops
\* depend on, through Instances and through InstanceArrays, once, and no
\* other Module.
C25_PackageComplete ==
    pc = "done" =>
        /\ \A m \in Dependencies : Cardinality(IndexOf(m)) = 1
        /\ \A i \in DOMAIN pkg_modules : pkg_modules[i].src \in Dependencies

\* C16: a Module that holds BundleInstances is never given a qualified name,
\* never cached and never appended to the Package, and the export of a
\* hierarchy in which the tops reach one through Instances ends in an error.
C16_BundlesRejected ==
    \A m \in Mods :
        hier[m].bundles # <<>> =>
            /\ m \notin Reached
            /\ IndexOf(m) = {}
            /\ (Terminated /\ m \in ReachByInstances(TopModules(tops), NMod)) => pc = "error"

\* The next step calls export_module on a Module that is already exported.
ReExportDue ==
    IF stack = <<>>
    THEN /\ pc \in {"start", "running"}
         /\ tidx <= Len(tops)
         /\ isinstance(tops[tidx], "Module")
         /\ tops[tidx].id \in DOMAIN modules
    ELSE /\ pc = "running"
         /\ TopFrame.pos <= Len(hier[TopFrame.module].instances)
         /\ isinstance(hier[TopFrame.module].instances[TopFrame.pos], "Module")
         /\ hier[TopFrame.module].instances[TopFrame.pos].id \in DOMAIN modules

ReExportArg ==
    IF stack = <<>> THEN tops[tidx].id
    ELSE hier[TopFrame.module].instances[TopFrame.pos].id

\* C7: every call of export_module returns the proto Module the cache holds
\* for its argument; a call on a Module already exported raises nothing,
\* returns that same proto Module and leaves the cache and the Package's
\* modules list as they were, with the Module in the list exactly once.
C7_ReExportSame ==
    [][/\ ret'.call = "export_module" => ret'.value = modules'[ret'.arg.id]
       /\ ReExportDue =>
             /\ pc' # "error"
             /\ ret' = [call |-> "export_module", arg |-> ModuleT(ReExportArg),
                        value |-> modules[ReExportArg]]
             /\ modules' = modules
             /\ pkg_modules' = pkg_modules
             /\ Cardinality({i \in DOMAIN pkg_modules' :
                                pkg_modules'[i].src = ReExportArg}) = 1]_vars

\* An export has returned whose tops list names one Module twice and in
\* which a Module is the target of two Instances.
C7_Witness ==
    /\ pc = "done"
    /\ Len(tops) = 2
    /\ tops[1] = tops[2]
    /\ \E m \in DOMAIN modules : Cardinality(Instantiators(m)) = 2
    /\ ret.call = "export_module"


\* C19: in a returned Package every Module has one Instance per Instance of
\* its source, in order, and each module reference resolves: for a Module
\* target it is the QualifiedName of that Module, which is in the modules
\* list; for an ExternalModuleCall it has the blank domain and the name of
\* the ExternalModule, which is in the ext_modules list; for a PrimitiveCall
\* it has the domain hdl21.primitives and the Primitive's name.
C19_ReferencesResolve ==
    pc = "done" =>
        \A j \in DOMAIN pkg_modules :
            LET pmod == pkg_modules[j]
                src == hier[pmod.src]
            IN /\ Len(pmod.instances) = Len(src.instances)
               /\ \A i \in DOMAIN pmod.instances :
                     LET of == src.instances[i]
                         qn == pmod.instances[i].module
                     IN IF isinstance(of, "Module")
                        THEN /\ qn = QualifiedName(of.id)
                             /\ \E k \in IndexOf(of.id) : pkg_modules[k].name = qn
                        ELSE IF isinstance(of, "ExternalModuleCall")
                        THEN /\ qn = [domain |-> "", name |-> emods[of.id].name]
                             /\ \E k \in DOMAIN pkg_ext_modules :
                                   pkg_ext_modules[k] = [src |-> of.id, name |-> qn.name]
                        ELSE /\ isinstance(of, "PrimitiveCall")
                             /\ qn = [domain |-> "hdl21.primitives", name |-> PrimName]

\* A Package was returned in which one Module has Instances of a Module, of
\* an ExternalModuleCall and of a PrimitiveCall.
C19_Witness ==
    /\ pc = "done"
    /\ \E j \in DOMAIN pkg_modules :
          {hier[pkg_modules[j].src].instances[i].kind :
              i \in DOMAIN hier[pkg_modules[j].src].instances}
            = {"Module", "ExternalModuleCall", "PrimitiveCall"}

\* The Instances, of exported Modules, whose target is a call of ExternalModule e.
ExtReferences(e) ==
    {n \in Nodes(hier) : /\ n[1] \in DOMAIN modules
                         /\ n[2] <= Len(hier[n[1]].instances)
                         /\ hier[n[1]].instances[n[2]] = ExternalModuleCall(e)}

\* The positions of ExternalModule e in the Package's ext_modules list.
ExtIndexOf(e) == {k \in DOMAIN pkg_ext_modules : pkg_ext_modules[k].src = e}

\* C20: an ExternalModule is never twice in the ext_modules list and never in
\* the modules list; in a returned Package it is in the ext_modules list
\* exactly once when some exported Instance refers to it; a step that exports
\* one leaves the modules list, the Module cache and the name table alone.
C20_ExternalModuleOnce ==
    /\ [](/\ \A e \in Exts : Cardinality(ExtIndexOf(e)) <= 1
          /\ \A e \in Exts : pc = "done" =>
                Cardinality(ExtIndexOf(e)) = IF ExtReferences(e) # {} THEN 1 ELSE 0
          /\ \A k \in DOMAIN pkg_modules : pkg_modules[k].src \in Mods
          /\ \A k \in DOMAIN pkg_modules : \A x \in DOMAIN pkg_ext_modules :
                pkg_modules[k] # pkg_ext_modules[x])
    /\ [][(ext_modules' # ext_modules \/ pkg_ext_modules' # pkg_ext_modules) =>
            /\ pkg_modules' = pkg_modules
            /\ modules' = modules
            /\ module_names' = module_names]_vars

\* A Package was returned with two ExternalModules, one of them referred to
\* by two Instances.
C20_Witness ==
    /\ pc = "done"
    /\ Len(pkg_ext_modules) = 2
    /\ \E e \in Exts : Cardinality(ExtReferences(e)) = 2

----------------------------------------------------------------------------
(* Elaborator.flatname (hdl21/elab/elaborators/base.py, lines 145-167) *)

MaxSegs == 2       \* entries of `segments`
MaxPad == 2        \* underscores appended to the keys of `avoid`
MaxLen == 5        \* largest `maxlen`

programVars == <<graphVars, elaborated, flagWrites, elabVars, exportVars>>

\* A dict, of which only the keys matter.
Dict(keys) == [kind |-> "dict", keys |-> keys]

\* Line 159: "_".join(segments).
RECURSIVE Join(_)
Join(segs) ==
    IF segs = <<>> THEN ""
    ELSE IF Len(segs) = 1 THEN segs[1]
    ELSE segs[1] \o "_" \o Join(Tail(segs))

\* Lines 154-159: the default of `avoid`, and the first candidate.
flatname_join ==
    /\ pc = "start"
    /\ avoid' = IF avoid = None THEN Dict({}) ELSE avoid
    /\ name' = Join(segments)
    /\ pc' = "running"
    /\ UNCHANGED <<programVars, instVars, walkVars, segments, maxlen, stack, err, ret>>

\* The loop with a length test that also rejects a name of exactly maxlen.
flatname_loop_strict ==
    /\ pc = "running"
    /\ IF Len(name) >= maxlen
       THEN /\ Raise("RuntimeError", "flatname", None)
            /\ UNCHANGED name
       ELSE IF name \notin avoid.keys
       THEN /\ pc' = "done"
            /\ UNCHANGED <<name, stack, err, ret>>
       ELSE /\ name' = name \o "_"
            /\ UNCHANGED <<pc, stack, err, ret>>
    /\ UNCHANGED <<programVars, instVars, walkVars, segments, avoid, maxlen>>

\* Lines 160-167: one iteration of the `while True` loop; `break` returns name.
flatname_loop ==
    /\ pc = "running"
    /\ IF Len(name) > maxlen
       THEN /\ Raise("RuntimeError", "flatname", None)
            /\ UNCHANGED name
       ELSE IF name \notin avoid.keys
       THEN /\ pc' = "done"
            /\ UNCHANGED <<name, stack, err, ret>>
       ELSE /\ name' = name \o "_"
            /\ UNCHANGED <<pc, stack, err, ret>>
    /\ UNCHANGED <<programVars, instVars, walkVars, segments, avoid, maxlen>>

RECURSIVE Pad(_, _)
Pad(s, k) == IF k = 0 THEN s ELSE Pad(s, k - 1) \o "_"

SegmentNames == {"a", "b", ""}

\* No hierarchy, no Elaborator run and no export at hand.
ProgramIdle ==
    /\ hier = [n \in Mods |-> Unused]
    /\ emods = [e \in Exts |-> [name |-> "x"]]
    /\ ElabIdle
    /\ ExportIdle
    /\ RunInit

\* A call flatname(segments, avoid=..., maxlen=...): `avoid` is None or a dict
\* whose keys are candidates of the call and a key that is none of them.
InitFlat ==
    /\ segments \in SeqsUpTo(SegmentNames, MaxSegs)
    /\ \E keys \in SUBSET ({Pad(Join(segments), k) : k \in 0..MaxPad} \cup {"zz"}) :
          avoid \in {None, Dict(keys)}
    /\ maxlen \in 0..MaxLen
    /\ name = ""
    /\ InstIdle
    /\ WalkIdle
    /\ ProgramIdle

NextFlat ==
    \/ flatname_join
    \/ flatname_loop

\* flatname is straight-line code: it runs until it returns or raises.
SpecFlat == InitFlat /\ [][NextFlat]_vars /\ WF_vars(NextFlat)

----------------------------------------------------------------------------
(* Properties of flatname *)

AvoidKeys == IF avoid = None THEN {} ELSE avoid.keys

\* The smallest number of underscores after which the joined segments are
\* not a key of avoid.
FirstFree ==
    CHOOSE k \in 0..Cardinality(AvoidKeys) :
        /\ Pad(Join(segments), k) \notin AvoidKeys
        /\ \A i \in 0..(k - 1) : Pad(Join(segments), i) \in AvoidKeys

----------------------------------------------------------------------------
(* ProtoExporter.export_instance for one Instance whose target is a call    *)
(* (hdl21/proto/to_proto.py, lines 153-242): the module reference, the      *)
(* parameter map and the connections.  A Module target is the business of   *)
(* export_module above.                                                     *)

MaxItems == 4      \* parameters plus connection-expression nodes of the Instance

\* Python values, by class.  bool is a sub-class of int; a paramclass value
\* is a nested dataclass.
PyNone == [type |-> "NoneType", val |-> 0]
PyInt(v) == [type |-> "int", val |-> v]
PyBool(v) == [type |-> "bool", val |-> v]
PyFloat(v) == [type |-> "float", val |-> v]
PyStr(v) == [type |-> "str", val |-> v]
PyEnum(v) == [type |-> "Enum", val |-> v]
PyParamclass == [type |-> "paramclass", val |-> 0]
PyDict == [type |-> "dict", val |-> 0]

\* isinstance(val, cls) for the classes of lines 183-189.
IsInstanceOf(val, cls) == val.type = cls \/ (cls = "int" /\ val.type = "bool")

\* dataclasses.asdict: the fields in order, a nested dataclass turned into a
\* dict, every other value kept.
asdict(ps) ==
    [i \in DOMAIN ps |->
        [key |-> ps[i].key,
         val |-> IF ps[i].val.type = "paramclass" THEN PyDict ELSE ps[i].val]]

\* The local `params` of lines 173 and 179.
Params ==
    IF isinstance(inst.of, "PrimitiveCall") THEN asdict(inst.params) ELSE inst.params

\* Connection expressions (hdl21.signal) and one that is none of the three.
Signal(nm, width) == [kind |-> "Signal", name |-> nm, width |-> width]
Slice(sig, bot, top_) == [kind |-> "Slice", signal |-> sig, bot |-> bot, top |-> top_]
Concat(parts) == [kind |-> "Concat", parts |-> parts]
PortRef == [kind |-> "PortRef"]

\* The result of a call that may raise.
Ok(value) == [ok |-> TRUE, value |-> value]
Raised(type, by) == [ok |-> FALSE, value |-> [type |-> type, by |-> by]]

\* Lines 219-242, export_concat: the loop over concat.parts from part i on,
\* acc being pconc.parts so far.
RECURSIVE export_concat(_), export_concat_parts(_, _, _)

\* export_concat splicing the parts of a nested Concat into its parent.
export_concat_parts_spliced(parts, i, acc) ==
    IF i > Len(parts) THEN Ok([parts |-> acc])
    ELSE LET part == parts[i] IN
         IF part.kind = "Signal"
         THEN export_concat_parts(parts, i + 1,
                  Append(acc, [stype |-> "sig",
                               sig |-> [name |-> part.name, width |-> part.width]]))
         ELSE IF part.kind = "Slice"
         THEN export_concat_parts(parts, i + 1,
                  Append(acc, [stype |-> "slice",
                               slice |-> [signal |-> part.signal.name, top |-> part.top,
                                          bot |-> part.bot]]))
         ELSE IF part.kind = "Concat"
         THEN LET sub_pconc == export_concat(part) IN
              IF ~sub_pconc.ok THEN sub_pconc
              ELSE export_concat_parts(parts, i + 1, acc \o sub_pconc.value.parts)
         ELSE Raised("TypeError", "export_concat")

export_concat_parts(parts, i, acc) ==
    IF i > Len(parts) THEN Ok([parts |-> acc])
    ELSE LET part == parts[i] IN
         IF part.kind = "Signal"
         THEN export_concat_parts(parts, i + 1,
                  Append(acc, [stype |-> "sig",
                               sig |-> [name |-> part.name, width |-> part.width]]))
         ELSE IF part.kind = "Slice"
         THEN export_concat_parts(parts, i + 1,
                  Append(acc, [stype |-> "slice",
                               slice |-> [signal |-> part.signal.name, top |-> part.top,
                                          bot |-> part.bot]]))
         ELSE IF part.kind = "Concat"
         THEN LET sub_pconc == export_concat(part) IN
              IF ~sub_pconc.ok THEN sub_pconc
              ELSE export_concat_parts(parts, i + 1,
                       Append(acc, [stype |-> "concat", concat |-> sub_pconc.value]))
         ELSE Raised("TypeError", "export_concat")

export_concat(concat) == export_concat_parts(concat.parts, 1, <<>>)

\* Lines 199-212: the proto Connection of one entry of inst.conns.
export_conn(sig) ==
    IF sig.kind = "Signal"
    THEN Ok([stype |-> "sig", sig |-> [name |-> sig.name, width |-> sig.width]])
    ELSE IF sig.kind = "Slice"
    THEN Ok([stype |-> "slice",
             slice |-> [signal |-> sig.signal.name, bot |-> sig.bot, top |-> sig.top]])
    ELSE IF sig.kind = "Concat"
    THEN LET pconc == export_concat(sig) IN
         IF ~pconc.ok THEN pconc ELSE Ok([stype |-> "concat", concat |-> pconc.value])
    ELSE Raised("TypeError", "export_connection")

\* What a single export_instance leaves alone throughout.
instFrame == <<graphVars, elaborated, flagWrites, elabVars, tops, tidx, domain, modules,
               module_names, pkg_modules, flatVars, walkVars, inst, stack, ret>>

\* Lines 159-179 and 193-194: the reference to the target.
export_instance_target ==
    /\ pc = "start"
    /\ IF isinstance(inst.of, "PrimitiveCall")
       THEN /\ pinst' = [pinst EXCEPT !.module = [domain |-> "hdl21.primitives",
                                                  name |-> PrimName]]
            /\ pidx' = 1
            /\ pc' = "running"
            /\ UNCHANGED <<ext_modules, pkg_ext_modules, err>>
       ELSE IF isinstance(inst.of, "ExternalModuleCall")
       THEN /\ export_external_module(inst.of.id)
            /\ pinst' = [pinst EXCEPT !.module = [domain |-> "",
                                                  name |-> emods[inst.of.id].name]]
            /\ pidx' = 1
            /\ pc' = "running"
            /\ UNCHANGED err
       ELSE /\ pc' = "error"
            /\ err' = [type |-> "TypeError", by |-> "export_instance_target", of |-> inst.of]
            /\ UNCHANGED <<ext_modules, pkg_ext_modules, pinst, pidx>>
    /\ UNCHANGED <<instFrame, cidx>>

\* The parameter loop without the `continue` of lines 183-184.
export_parameter_nonone ==
    /\ pc = "running"
    /\ pidx <= Len(Params)
    /\ LET key == Params[pidx].key
           val == Params[pidx].val
           set(variant) ==
               /\ pinst' = [pinst EXCEPT !.parameters =
                               (key :> [variant |-> variant, value |-> val.val]) @@ @]
               /\ pidx' = pidx + 1
               /\ UNCHANGED <<pc, err>>
       IN IF IsInstanceOf(val, "int") THEN set("integer")
          ELSE IF IsInstanceOf(val, "float") THEN set("double")
          ELSE IF IsInstanceOf(val, "str") THEN set("string")
          ELSE /\ pc' = "error"
               /\ err' = [type |-> "TypeError", by |-> "export_parameter", of |-> inst.of]
               /\ UNCHANGED <<pinst, pidx>>
    /\ UNCHANGED <<instFrame, ext_modules, pkg_ext_modules, cidx>>

\* Lines 182-192: one iteration of the loop over params.items().
export_parameter ==
    /\ pc = "running"
    /\ pidx <= Len(Params)
    /\ LET key == Params[pidx].key
           val == Params[pidx].val
           set(variant) ==
               /\ pinst' = [pinst EXCEPT !.parameters =
                               (key :> [variant |-> variant, value |-> val.val]) @@ @]
               /\ pidx' = pidx + 1
               /\ UNCHANGED <<pc, err>>
       IN IF IsInstanceOf(val, "NoneType")
          THEN /\ pidx' = pidx + 1
               /\ UNCHANGED <<pinst, pc, err>>
          ELSE IF IsInstanceOf(val, "int") THEN set("integer")
          ELSE IF IsInstanceOf(val, "float") THEN set("double")
          ELSE IF IsInstanceOf(val, "str") THEN set("string")
          ELSE /\ pc' = "error"
               /\ err' = [type |-> "TypeError", by |-> "export_parameter", of |-> inst.of]
               /\ UNCHANGED <<pinst, pidx>>
    /\ UNCHANGED <<instFrame, ext_modules, pkg_ext_modules, cidx>>

\* Lines 197-215: one iteration of the loop over inst.conns.items().
export_connection ==
    /\ pc = "running"
    /\ pidx > Len(Params)
    /\ cidx <= Len(inst.conns)
    /\ LET pname == inst.conns[cidx].pname
           pconn == export_conn(inst.conns[cidx].sig)
       IN IF pconn.ok
          THEN /\ pinst' = [pinst EXCEPT !.connections = (pname :> pconn.value) @@ @]
               /\ cidx' = cidx + 1
               /\ UNCHANGED <<pc, err>>
          ELSE /\ pc' = "error"
               /\ err' = [type |-> pconn.value.type, by |-> pconn.value.by, of |-> inst.of]
               /\ UNCHANGED <<pinst, cidx>>
    /\ UNCHANGED <<instFrame, ext_modules, pkg_ext_modules, pidx>>

\* Line 217: return pinst.
export_instance_return ==
    /\ pc = "running"
    /\ pidx > Len(Params)
    /\ cidx > Len(inst.conns)
    /\ pc' = "done"
    /\ UNCHANGED <<instFrame, ext_modules, pkg_ext_modules, pinst, pidx, cidx, err>>

ParamValues ==
    {PyNone, PyInt(3), PyBool(1), PyFloat(3), PyStr("s"), PyEnum("NMOS"), PyParamclass}
ParamKeys == <<"w", "l", "nser", "npar", "tp", "vth">>
PortNames == <<"d", "g", "s", "b", "e", "f">>

\* Expressions of one node: a Signal, a Slice of a Signal, an empty Concat,
\* and a PortRef.
ExprLeaves == {Signal("a", 4), Slice(Signal("b", 8), 0, 4), Concat(<<>>), PortRef}

\* The expressions with exactly n nodes, and the lists of expressions with
\* exactly n nodes in all.
RECURSIVE ExprsOfSize(_), ExprListsOfSize(_)
ExprsOfSize(n) ==
    IF n = 1 THEN ExprLeaves
    ELSE {Concat(parts) : parts \in ExprListsOfSize(n - 1) \ {<<>>}}

ExprListsOfSize(n) ==
    IF n = 0 THEN {<<>>}
    ELSE UNION {{<<e>> \o rest : e \in ExprsOfSize(k), rest \in ExprListsOfSize(n - k)} :
                k \in 1..n}

\* An Instance whose target is a call (or no Instantiable at all), with
\* params and conns of at most MaxItems entries and expression nodes.
InitInst ==
    /\ \E of \in {PrimitiveCall, ExternalModuleCall(1), GeneratorCall}, np \in 0..MaxItems :
       \E vals \in [1..np -> ParamValues] :
       \E nc \in 0..(MaxItems - np) :
       \E sigs \in ExprListsOfSize(nc) :
          inst = [of |-> of,
                  params |-> [i \in 1..np |-> [key |-> ParamKeys[i], val |-> vals[i]]],
                  conns |-> [i \in DOMAIN sigs |-> [pname |-> PortNames[i], sig |-> sigs[i]]]]
    /\ pidx = 1
    /\ cidx = 1
    /\ pinst = NoPinst
    /\ FlatIdle
    /\ WalkIdle
    /\ ProgramIdle

NextInst ==
    \/ export_instance_target
    \/ export_parameter
    \/ export_connection
    \/ export_instance_return

SpecInst == InitInst /\ [][NextInst]_vars

----------------------------------------------------------------------------
(* Properties of export_instance *)

\* The params entries the loop of lines 182-192 has gone through.
ParamsDone == {i \in DOMAIN Params : i < pidx}

\* The wire variant of the classes the parameter map can hold.
VariantOf(val) ==
    IF val.type \in {"int", "bool"} THEN "integer"
    ELSE IF val.type = "float" THEN "double"
    ELSE IF val.type = "str" THEN "string"
    ELSE "none"

\* C12: the parameter map of an Instance of a PrimitiveCall or an
\* ExternalModuleCall has exactly one key per parameter gone through whose
\* value is not None; an int (a bool is one) is stored under the integer
\* variant, a float under double, a str under string, each with its value;
\* the export raises the TypeError on, and only on, a value of another class.
C12_ParameterMap ==
    (pc # "start" /\ inst.of.kind \in {"PrimitiveCall", "ExternalModuleCall"}) =>
        /\ DOMAIN pinst.parameters =
              {Params[i].key : i \in {j \in ParamsDone : Params[j].val # PyNone}}
        /\ \A i \in ParamsDone :
              /\ VariantOf(Params[i].val) # "none" =>
                    pinst.parameters[Params[i].key] =
                        [variant |-> VariantOf(Params[i].val), value |-> Params[i].val.val]
              /\ Params[i].val = PyNone \/ VariantOf(Params[i].val) # "none"
        /\ (pc = "error" /\ err.by = "export_parameter") =>
              /\ err.type = "TypeError"
              /\ pidx \in DOMAIN Params
              /\ Params[pidx].val # PyNone
              /\ VariantOf(Params[pidx].val) = "none"
        /\ pc = "done" => pidx = Len(Params) + 1

\* An Instance was exported whose parameters hold a None, an int, a float
\* and a str.
C12_Witness ==
    /\ pc = "done"
    /\ {Params[i].val.type : i \in DOMAIN Params} = {"NoneType", "int", "float", "str"}

\* An expression made of Signals, Slices and Concats alone.
RECURSIVE Exportable(_)
Exportable(sig) ==
    \/ sig.kind \in {"Signal", "Slice"}
    \/ /\ sig.kind = "Concat"
       /\ \A i \in DOMAIN sig.parts : Exportable(sig.parts[i])

\* The proto Connection has the shape of the expression.
RECURSIVE SameShape(_, _)
SameShape(sig, pconn) ==
    IF sig.kind = "Signal"
    THEN pconn = [stype |-> "sig", sig |-> [name |-> sig.name, width |-> sig.width]]
    ELSE IF sig.kind = "Slice"
    THEN pconn = [stype |-> "slice",
                  slice |-> [signal |-> sig.signal.name, bot |-> sig.bot, top |-> sig.top]]
    ELSE /\ sig.kind = "Concat"
         /\ pconn.stype = "concat"
         /\ DOMAIN pconn = {"stype", "concat"}
         /\ DOMAIN pconn.concat = {"parts"}
         /\ Len(pconn.concat.parts) = Len(sig.parts)
         /\ \A i \in DOMAIN sig.parts : SameShape(sig.parts[i], pconn.concat.parts[i])

\* The conns entries the loop of lines 197-215 has gone through.
ConnsDone == {i \in DOMAIN inst.conns : i < cidx}

\* C13: every connection gone through is in the proto Instance, under its
\* port name, with the shape of its expression: a sig with the Signal's name
\* and width, a slice with the sliced Signal's name and the same bot and top,
\* a concat with one part per part, in order, by the same rule; the export
\* raises the TypeError on, and only on, an expression that holds another
\* variant at any depth.
C13_ConnectionShape ==
    /\ DOMAIN pinst.connections = {inst.conns[i].pname : i \in ConnsDone}
    /\ \A i \in ConnsDone :
          /\ Exportable(inst.conns[i].sig)
          /\ SameShape(inst.conns[i].sig, pinst.connections[inst.conns[i].pname])
    /\ (pc = "error" /\ err.by \in {"export_connection", "export_concat"}) =>
          /\ err.type = "TypeError"
          /\ cidx \in DOMAIN inst.conns
          /\ ~Exportable(inst.conns[cidx].sig)
    /\ pc = "done" => cidx = Len(inst.conns) + 1

\* An Instance was exported that is connected by a Concat of a Signal, a
\* Slice and a nested Concat.
C13_Witness ==
    /\ pc = "done"
    /\ \E i \in DOMAIN inst.conns :
          LET sig == inst.conns[i].sig IN
          /\ sig.kind = "Concat"
          /\ Len(sig.parts) = 3
          /\ sig.parts[1].kind = "Signal"
          /\ sig.parts[2].kind = "Slice"
          /\ sig.parts[3].kind = "Concat"

----------------------------------------------------------------------------
(* Asap7Walker (hdl21pdk/asap7/asap7.py).  HierarchyWalker hands           *)
(* visit_instance every Instance of the hierarchy; winsts lists them in    *)
(* that order, each with the target it had at first (orig) and the target  *)
(* it has now (of).                                                        *)

MaxWalk == 3       \* Instances the walker visits

\* hdl21.primitives.MosParams, a value compared and hashed by its fields.
MosParams(w, tp, vth) ==
    [w |-> w, l |-> 1, nser |-> 1, npar |-> 1, tp |-> tp, vth |-> vth]

\* PrimitiveCall objects: `id` is the object's identity.
MosCall(id, params) ==
    [kind |-> "PrimitiveCall", id |-> id, prim |-> "Mos", params |-> params]
ResistorCall(id) ==
    [kind |-> "PrimitiveCall", id |-> id, prim |-> "Resistor", params |-> [r |-> 1]]

\* Lines 27-36: the name tables.
mos_typenames == [NMOS |-> "n", PMOS |-> "p"]
mos_vtnames == [STD |-> "_rvt", LOW |-> "_lvt", SLVT |-> "_slvt", SRAM |-> "_sram"]

\* What an f-string makes of a MosType member: the str() of a plain Enum.
MosTypeStr(tp) == "MosType." \o tp

\* Line 44: modname = f"{tp}mos{vtname}", tp being the key of
\* _mos_typenames (the MosType member), not its value tpname.
modname(tp, vt) == MosTypeStr(tp) \o "mos" \o mos_vtnames[vt]

\* Lines 38-54: the table from (MosType, MosVth) to the ExternalModule, which
\* its name stands for.
mos_modules ==
    [k \in (DOMAIN mos_typenames) \X (DOMAIN mos_vtnames) |-> modname(k[1], k[2])]

\* Lines 25 and 57: the `modules` namespace, from attribute name to the
\* (MosType, MosVth) pair of the ExternalModule set under it.
asap7_modules ==
    [nm \in {modname(k[1], k[2]) : k \in DOMAIN mos_modules} |->
        CHOOSE k \in DOMAIN mos_modules : modname(k[1], k[2]) = nm]

\* Lines 83-88, mos_module.
mos_module(params) ==
    IF <<params.tp, params.vth>> \notin DOMAIN mos_modules
    THEN Raised("RuntimeError", "mos_module")
    ELSE Ok(mos_modules[<<params.tp, params.vth>>])

\* The parameter translation with `vth` left in.
modparams_keepvth(params) == [k \in DOMAIN params |-> params[k]]

\* Lines 102-103: asdict(params) without the key "vth".
modparams(params) == [k \in (DOMAIN params) \ {"vth"} |-> params[k]]

\* The outcome of a call that may raise and may change the walker's cache.
WOk(value, cache, n) == [ok |-> TRUE, value |-> value, cache |-> cache, ncalls |-> n]
WRaised(e) == [ok |-> FALSE, value |-> e, cache |-> mos_modcalls, ncalls |-> ncalls]

\* mos_module_call without the cache check of lines 93-94.
mos_module_call_nocache(params) ==
    LET mod == mos_module(params) IN
    IF ~mod.ok THEN WRaised(mod.value)
    ELSE LET modcall == [kind |-> "ExternalModuleCall", id |-> ncalls + 1,
                         module |-> mod.value, params |-> modparams(params)]
         IN WOk(modcall, (params :> modcall) @@ mos_modcalls, ncalls + 1)

\* Lines 90-108, mos_module_call: `mod(modparams)` makes a new
\* ExternalModuleCall object.
mos_module_call(params) ==
    IF params \in DOMAIN mos_modcalls
    THEN WOk(mos_modcalls[params], mos_modcalls, ncalls)
    ELSE LET mod == mos_module(params) IN
         IF ~mod.ok THEN WRaised(mod.value)
         ELSE LET modcall == [kind |-> "ExternalModuleCall", id |-> ncalls + 1,
                              module |-> mod.value, params |-> modparams(params)]
              IN WOk(modcall, (params :> modcall) @@ mos_modcalls, ncalls + 1)

\* Lines 74-81, replace_primitive.
replace_primitive(primcall) ==
    IF primcall.prim = "Mos"
    THEN mos_module_call(primcall.params)
    ELSE WOk(primcall, mos_modcalls, ncalls)

\* Lines 66-72, visit_instance, on the next Instance of the walk.
visit_instance ==
    /\ pc \in {"start", "running"}
    /\ widx <= Len(winsts)
    /\ IF isinstance(winsts[widx].of, "PrimitiveCall")
       THEN LET r == replace_primitive(winsts[widx].of) IN
            IF r.ok
            THEN /\ winsts' = [winsts EXCEPT ![widx].of = r.value]
                 /\ mos_modcalls' = r.cache
                 /\ ncalls' = r.ncalls
                 /\ widx' = widx + 1
                 /\ pc' = IF widx = Len(winsts) THEN "done" ELSE "running"
                 /\ UNCHANGED err
            ELSE /\ pc' = "error"
                 /\ err' = [type |-> r.value.type, by |-> r.value.by, of |-> None]
                 /\ UNCHANGED walkVars
       ELSE /\ widx' = widx + 1
            /\ pc' = IF widx = Len(winsts) THEN "done" ELSE "running"
            /\ UNCHANGED <<winsts, mos_modcalls, ncalls, err>>
    /\ UNCHANGED <<programVars, flatVars, instVars, stack, ret>>

MosWidths == {1, 2}
MosTypes == {"NMOS", "PMOS"}
\* The thresholds a MosParams may name; no module is registered for HIGH.
MosVths == {"STD", "LOW", "HIGH"}

\* The targets Instance i may have: a PrimitiveCall object of its own, an
\* ExternalModuleCall made by the author, or a Module.
WalkTargets(i) ==
    {MosCall(i, MosParams(w, tp, vth)) : w \in MosWidths, tp \in MosTypes, vth \in MosVths}
    \cup {ResistorCall(i), ExternalModuleCall(1), ModuleT(1)}

\* The target t as Instance i has it: a PrimitiveCall is i's own object.
OwnedBy(t, i) == IF t.kind = "PrimitiveCall" THEN [t EXCEPT !.id = i] ELSE t

\* Asap7Walker(): an empty cache, and a hierarchy of up to MaxWalk Instances.
InitWalk ==
    /\ \E n \in 1..MaxWalk :
       \E ts \in [1..n -> WalkTargets(0)] :
          winsts = [i \in 1..n |-> [orig |-> OwnedBy(ts[i], i), of |-> OwnedBy(ts[i], i)]]
    /\ widx = 1
    /\ mos_modcalls = <<>>
    /\ ncalls = 0
    /\ FlatIdle
    /\ InstIdle
    /\ ProgramIdle

NextWalk == visit_instance

SpecWalk == InitWalk /\ [][NextWalk]_vars

----------------------------------------------------------------------------
(* Properties of the Asap7Walker *)

\* The Instances visit_instance has returned from.
Visited == {i \in DOMAIN winsts : i < widx}

IsMosCall(t) == t.kind = "PrimitiveCall" /\ t.prim = "Mos"

\* C14: any two visited Instances whose targets were Mos PrimitiveCalls of
\* equal parameter values now have the one same ExternalModuleCall object as
\* target, and the walker has made, and its cache holds, one
\* ExternalModuleCall per distinct parameter value it was given.
C14_SharedSubstitution ==
    /\ \A i, j \in Visited :
          (IsMosCall(winsts[i].orig) /\ IsMosCall(winsts[j].orig)
              /\ winsts[i].orig.params = winsts[j].orig.params) =>
                 /\ winsts[i].of.kind = "ExternalModuleCall"
                 /\ winsts[i].of = winsts[j].of
    /\ DOMAIN mos_modcalls =
          {winsts[i].orig.params : i \in {j \in Visited : IsMosCall(winsts[j].orig)}}
    /\ ncalls = Cardinality(DOMAIN mos_modcalls)

\* Three Mos PrimitiveCalls were replaced, two of them distinct objects of
\* equal parameters, by two ExternalModuleCalls.
C14_Witness ==
    /\ pc = "done"
    /\ Len(winsts) = 3
    /\ \A i \in 1..3 : IsMosCall(winsts[i].orig)
    /\ winsts[1].orig.params = winsts[3].orig.params
    /\ winsts[1].orig # winsts[3].orig
    /\ ncalls = 2

C22_LookupTable ==
    LET letter == [NMOS |-> "n", PMOS |-> "p"]
        suffix == [STD |-> "_rvt", LOW |-> "_lvt", SLVT |-> "_slvt", SRAM |-> "_sram"]
        pairs == {"NMOS", "PMOS"} \X {"STD", "LOW", "SLVT", "SRAM"}
    IN /\ DOMAIN mos_modules = pairs
       /\ \A k \in pairs :
             /\ mos_modules[k] = letter[k[1]] \o "mos" \o suffix[k[2]]
             /\ mos_modules[k] \in DOMAIN asap7_modules
             /\ asap7_modules[mos_modules[k]] = k
       /\ \A j, k \in pairs : j # k => mos_modules[j] # mos_modules[k]
       /\ \A i \in Visited :
             winsts[i].of.kind = "ExternalModuleCall" =>
                 winsts[i].of.module \in
                     {letter[k[1]] \o "mos" \o suffix[k[2]] : k \in pairs}

\* C15: once visit_instance has returned from an Instance, the Instance's
\* target is no PrimitiveCall.
C15_NoPrimitiveLeft ==
    \A i \in Visited : winsts[i].of.kind # "PrimitiveCall"

====
